---- MODULE Spec2Model ----
(***************************************************************************)
(* Model of crates/aide/src/axum/routing.rs: ApiMethodRouter, a wrapper    *)
(* over axum's MethodRouter that keeps, next to the dispatcher, an         *)
(* IndexMap from method name to the documented Operation.                  *)
(*                                                                         *)
(* The dispatcher (axum::routing::MethodRouter) is an external crate; it   *)
(* is modelled by the set of methods it has a handler for.  The generation *)
(* context (crate::gen::GenContext) is modelled by its infer_responses     *)
(* flag and its list of recorded errors.                                   *)
(***************************************************************************)
EXTENDS Integers, Sequences, FiniteSets, TLC

VARIABLES ctx, routers, path, last, steps, drained

vars == <<ctx, routers, path, last, steps, drained>>

----------------------------------------------------------------------------
(* Bounds *)

\* Number of HTTP methods the registrations are drawn from.
NumMethods == 2
\* Longest sequence an output adapter yields (O::inferred_responses).
MaxOut == 2
\* Longest sequence an input adapter yields (I::inferred_early_responses).
MaxEarly == 2
\* Number of calls in one run of Spec.
MaxSteps == 3

----------------------------------------------------------------------------
(* Values *)

\* Option<T>
None == <<>>
Some(x) == <<x>>

\* The eight method names the macros are invoked with.
Methods == {"delete", "get", "head", "options", "patch", "post", "put", "trace"}

\* Variant of MethodOrder in which a macro is invoked for a ninth method name.
MethodOrder_Connect == <<"get", "connect", "post", "delete", "put", "patch", "head", "options", "trace">>

MethodOrder == <<"get", "post", "delete", "put", "patch", "head", "options", "trace">>

RegMethods == {MethodOrder[i] : i \in 1..(IF NumMethods < Len(MethodOrder) THEN NumMethods ELSE Len(MethodOrder))}

\* u16 status codes the adapters declare.
StatusCodes == {200, 404, 422}

\* Option<u16>: the first component of an inferred pair.
OutcomeKeys == {None} \cup {Some(k) : k \in StatusCodes}

SeqsUpTo(S, n) == UNION {[1..k -> S] : k \in 0..n}

\* A handler H: OperationHandler<I, O>, given by what its adapters yield.
HandlerTypes == [out : SeqsUpTo(OutcomeKeys, MaxOut), early : SeqsUpTo(OutcomeKeys, MaxEarly)]

\* The handlers the router-level specification registers: one whose adapters
\* declare nothing, and one whose adapters both declare the status 200.
RouteHandlers == {h \in HandlerTypes : h.out \in {<<>>, <<Some(200)>>} /\ h.early = h.out}

\* The transforms a caller passes to M_with.
Transforms == {"keep", "hide", "respond"}

\* A Response, identified by the adapter that produced it and its position.
Response(src, i) == [src |-> src, idx |-> i]

NoResponse == Response("none", 0)

\* Operation::default()
DefaultOperation == [input |-> FALSE, responses |-> None]

\* Responses::default()
DefaultResponses == [responses |-> <<>>, default |-> None]

\* Error::InferredResponseConflict(status)
InferredResponseConflict(status) == [kind |-> "InferredResponseConflict", status |-> Some(status)]

\* Error::InferredDefaultResponseConflict
InferredDefaultResponseConflict == [kind |-> "InferredDefaultResponseConflict", status |-> None]

\* One step of a registration call, as it is logged in program order: the
\* operation and the number of recorded errors before and after the step.
Event(ev, src, key, op, errs0, post, errs) ==
  [ev |-> ev, src |-> src, key |-> key, op |-> op, errs0 |-> errs0, post |-> post, errs |-> errs]

\* A step from call state b to call state a.
Step(ev, src, key, b, a) ==
  Event(ev, src, key, b.operation, Len(b.ctx.errors), a.operation, Len(a.ctx.errors))

----------------------------------------------------------------------------
(* IndexMap<K, V>: a sequence of entries with distinct keys *)

Keys(map) == {map[i].key : i \in 1..Len(map)}

Get(map, k) == LET i == CHOOSE i \in 1..Len(map) : map[i].key = k IN map[i].value

\* IndexMap::insert: replaces the value in place, or appends a new entry.
IndexMap_insert(map, k, v) ==
  IF k \in Keys(map)
  THEN [i \in 1..Len(map) |-> IF map[i].key = k THEN [key |-> k, value |-> v] ELSE map[i]]
  ELSE Append(map, [key |-> k, value |-> v])

RECURSIVE IndexMap_extend(_, _)
\* IndexMap::extend: inserts the entries of `other` in their order.
IndexMap_extend(map, other) ==
  IF other = <<>> THEN map
  ELSE IndexMap_extend(IndexMap_insert(map, other[1].key, other[1].value), Tail(other))

----------------------------------------------------------------------------
(* Inference: the body of the in_context closures *)

\* ctx.error(e): the generation context records the error.
GenContext_error(cx, e) == [cx EXCEPT !.errors = Append(@, e)]

\* Variant of set_inferred_response in which a write to an occupied key records
\* the conflict and replaces the entry.
set_inferred_response_LastWins(c, status, res) ==
  LET operation == IF c.operation.responses = None
                   THEN [c.operation EXCEPT !.responses = Some(DefaultResponses)]
                   ELSE c.operation
      responses == operation.responses[1]
      written == IF status # None
                 THEN [responses EXCEPT !.responses = IndexMap_insert(@, status[1], res)]
                 ELSE [responses EXCEPT !.default = Some(res)]
      taken == IF status # None THEN status[1] \in Keys(responses.responses)
               ELSE responses.default # None
      error == IF status # None THEN InferredResponseConflict(status[1])
               ELSE InferredDefaultResponseConflict
  IN [c EXCEPT !.operation = [operation EXCEPT !.responses = Some(written)],
               !.ctx = IF taken THEN GenContext_error(c.ctx, error) ELSE c.ctx]

\* Variant of set_inferred_response in which a write to an occupied key
\* replaces the entry and records nothing.
set_inferred_response_Overwrites(c, status, res) ==
  LET operation == IF c.operation.responses = None
                   THEN [c.operation EXCEPT !.responses = Some(DefaultResponses)]
                   ELSE c.operation
      responses == operation.responses[1]
      written == IF status # None
                 THEN [responses EXCEPT !.responses = IndexMap_insert(@, status[1], res)]
                 ELSE [responses EXCEPT !.default = Some(res)]
  IN [c EXCEPT !.operation = [operation EXCEPT !.responses = Some(written)]]

\* fn set_inferred_response(ctx, operation, status, res), on c = [operation, ctx, log].
set_inferred_response(c, status, res) ==
  LET operation == IF c.operation.responses = None
                   THEN [c.operation EXCEPT !.responses = Some(DefaultResponses)]
                   ELSE c.operation
      responses == operation.responses[1]
  IN IF status # None
     THEN IF status[1] \in Keys(responses.responses)
          THEN [c EXCEPT !.operation = operation,
                         !.ctx = GenContext_error(c.ctx, InferredResponseConflict(status[1]))]
          ELSE [c EXCEPT !.operation =
                  [operation EXCEPT !.responses =
                     Some([responses EXCEPT !.responses = IndexMap_insert(@, status[1], res)])]]
     ELSE IF responses.default # None
          THEN [c EXCEPT !.operation = operation,
                         !.ctx = GenContext_error(c.ctx, InferredDefaultResponseConflict)]
          ELSE [c EXCEPT !.operation =
                  [operation EXCEPT !.responses = Some([responses EXCEPT !.default = Some(res)])]]

\* I::operation_input(ctx, &mut operation): the input adapter fills in the request shape.
operation_input(c, h) ==
  LET c1 == [c EXCEPT !.operation.input = TRUE]
  IN [c1 EXCEPT !.log = Append(@, Step("input", "input", None, c, c1))]

RECURSIVE ForEachInferred(_, _, _, _)
\* for (code, res) in <adapter>(ctx, &mut operation) { set_inferred_response(..) },
\* from the i-th pair of the adapter's sequence on.
ForEachInferred(c, codes, src, i) ==
  IF i > Len(codes) THEN c
  ELSE LET c1 == set_inferred_response(c, codes[i], Response(src, i))
       IN ForEachInferred([c1 EXCEPT !.log = Append(@, Step("set", src, codes[i], c, c1))],
                          codes, src, i + 1)

\* for (code, res) in O::inferred_responses(ctx, &mut operation)
OutputLoop(c, h) == ForEachInferred(c, h.out, "output", 1)

\* for (code, res) in I::inferred_early_responses(ctx, &mut operation)
EarlyLoop(c, h) == ForEachInferred(c, h.early, "early", 1)

\* let mut operation = Operation::default(); in_context(|ctx| ..)
NewCall(cx) == [operation |-> DefaultOperation, ctx |-> cx, log |-> <<>>]

\* The closure of the chained $name.
chain_infer(cx, h) == OutputLoop(operation_input(NewCall(cx), h), h)

\* The closure of the chained $name_with.
chain_with_infer(cx, h) ==
  LET c == operation_input(NewCall(cx), h)
  IN IF cx.infer_responses THEN EarlyLoop(OutputLoop(c, h), h) ELSE c

\* The closure of the top-level $name.
top_infer(cx, h) == EarlyLoop(OutputLoop(operation_input(NewCall(cx), h), h), h)

\* Variant of top_with_infer that applies the inferred responses whatever
\* infer_responses says.
top_with_infer_IgnoresFlag(cx, h) == EarlyLoop(OutputLoop(operation_input(NewCall(cx), h), h), h)

\* The closure of the top-level $name_with.
top_with_infer(cx, h) ==
  LET c == operation_input(NewCall(cx), h)
  IN IF cx.infer_responses THEN EarlyLoop(OutputLoop(c, h), h) ELSE c

----------------------------------------------------------------------------
(* The transform *)

\* TransformOperation::new(&mut operation)
TransformOperation_new(operation) == [operation |-> operation, hidden |-> FALSE]

\* transform(TransformOperation) -> TransformOperation, for the three transforms
\* the model passes: the identity, one that hides the operation, and one that
\* documents an explicit 200 response.
transform(t, top) ==
  IF t = "hide" THEN [top EXCEPT !.hidden = TRUE]
  ELSE IF t = "respond"
  THEN LET rs == IF top.operation.responses = None THEN DefaultResponses
                 ELSE top.operation.responses[1]
       IN [top EXCEPT !.operation.responses =
             Some([rs EXCEPT !.responses = IndexMap_insert(@, 200, Response("explicit", 1))])]
  ELSE top

\* let t = transform(TransformOperation::new(&mut operation)), logged.
RunTransform(c, t) ==
  LET top == transform(t, TransformOperation_new(c.operation))
  IN [operation |-> top.operation, ctx |-> c.ctx, hidden |-> top.hidden,
      log |-> Append(c.log, Step("transform", "caller", None, c, [c EXCEPT !.operation = top.operation]))]

----------------------------------------------------------------------------
(* ApiMethodRouter *)

\* The slots a run keeps wrappers in.
Slots == {"a", "b"}

\* No wrapper in the slot: not yet built, or moved into a merge.
NoRouter == [live |-> FALSE, operations |-> <<>>, router |-> {}]

\* struct ApiMethodRouter { operations, router }
ApiMethodRouter(operations, router) == [live |-> TRUE, operations |-> operations, router |-> router]

\* MethodRouter::$name(handler): the dispatcher gains a handler for the method.
MethodRouter_on(router, m) == router \cup {m}

\* MethodRouter::merge(other)
MethodRouter_merge(router, other) == router \cup other

\* impl From<MethodRouter> for ApiMethodRouter
From_MethodRouter(router) == ApiMethodRouter(<<>>, router)

\* ApiMethodRouter::new()
ApiMethodRouter_new == ApiMethodRouter(<<>>, {})

\* The outcome of one registration call.
Registered(self, c, seen, hidden, log) ==
  [self |-> self, ctx |-> c.ctx, seen |-> seen, hidden |-> hidden, log |-> log]

\* Variant of chain_with_record in which the transform runs before the input
\* early responses are applied.
chain_with_record_TransformFirst(cx, h, t) ==
  LET c == operation_input(NewCall(cx), h)
      o == IF cx.infer_responses THEN OutputLoop(c, h) ELSE c
      r == RunTransform(o, t)
  IN IF cx.infer_responses THEN EarlyLoop(r, h) ELSE r

\* The record the chained $name_with builds: inference, then the transform.
chain_with_record(cx, h, t) == RunTransform(chain_with_infer(cx, h), t)

\* The record the top-level $name_with builds: inference, then the transform.
top_with_record(cx, h, t) == RunTransform(top_with_infer(cx, h), t)

\* Variant of chain_name that starts the mapping anew with the record it built.
chain_name_DropsOthers(self, cx, m, h) ==
  LET c == chain_infer(cx, h)
      operations == <<[key |-> m, value |-> c.operation]>>
      router == MethodRouter_on(self.router, m)
  IN Registered(ApiMethodRouter(operations, router), c, c.operation, FALSE,
                c.log \o <<Step("insert", "self", None, c, c), Step("route", "self", None, c, c)>>)

\* pub fn $name(mut self, handler) -> Self
chain_name(self, cx, m, h) ==
  LET c == chain_infer(cx, h)
      operations == IndexMap_insert(self.operations, m, c.operation)
      router == MethodRouter_on(self.router, m)
  IN Registered(ApiMethodRouter(operations, router), c, c.operation, FALSE,
                c.log \o <<Step("insert", "self", None, c, c),
                           Step("route", "self", None, c, c)>>)

\* Variant of chain_name_with that gives up, leaving the wrapper as it was, when
\* the inference recorded a conflict.
chain_name_with_AbortsOnConflict(self, cx, m, h, t) ==
  LET c == RunTransform(chain_with_infer(cx, h), t)
      failed == Len(c.ctx.errors) > Len(cx.errors)
      operations == IF ~c.hidden /\ ~failed THEN IndexMap_insert(self.operations, m, c.operation)
                    ELSE self.operations
      router == IF failed THEN self.router ELSE MethodRouter_on(self.router, m)
  IN Registered(ApiMethodRouter(operations, router), c, c.log[Len(c.log)].op, c.hidden,
                c.log \o <<Step("route", "self", None, c, c)>>)

\* Variant of chain_name_with in which a hidden record is stored as well.
chain_name_with_StoresHidden(self, cx, m, h, t) ==
  LET c == RunTransform(chain_with_infer(cx, h), t)
      operations == IndexMap_insert(self.operations, m, c.operation)
      router == MethodRouter_on(self.router, m)
  IN Registered(ApiMethodRouter(operations, router), c, c.log[Len(c.log)].op, c.hidden,
                c.log \o <<Step("insert", "self", None, c, c), Step("route", "self", None, c, c)>>)

\* pub fn $name_with(mut self, handler, transform) -> Self
chain_name_with(self, cx, m, h, t) ==
  LET c == chain_with_record(cx, h, t)
      operations == IF ~c.hidden THEN IndexMap_insert(self.operations, m, c.operation)
                    ELSE self.operations
      router == MethodRouter_on(self.router, m)
  IN Registered(ApiMethodRouter(operations, router), c, c.log[Len(c.log)].op, c.hidden,
                c.log \o (IF ~c.hidden THEN <<Step("insert", "self", None, c, c)>> ELSE <<>>)
                      \o <<Step("route", "self", None, c, c)>>)

\* pub fn $name(handler) -> ApiMethodRouter
top_name(cx, m, h) ==
  LET router == From_MethodRouter(MethodRouter_on({}, m))
      c == top_infer(cx, h)
      operations == IndexMap_insert(router.operations, m, c.operation)
  IN Registered(ApiMethodRouter(operations, router.router), c, c.operation, FALSE,
                <<Step("route", "self", None, NewCall(cx), NewCall(cx))>> \o c.log
                  \o <<Step("insert", "self", None, c, c)>>)

\* pub fn $name_with(handler, transform) -> ApiMethodRouter
top_name_with(cx, m, h, t) ==
  LET router == From_MethodRouter(MethodRouter_on({}, m))
      c == top_with_record(cx, h, t)
      operations == IF ~c.hidden THEN IndexMap_insert(router.operations, m, c.operation)
                    ELSE router.operations
  IN Registered(ApiMethodRouter(operations, router.router), c, c.log[Len(c.log)].op, c.hidden,
                <<Step("route", "self", None, NewCall(cx), NewCall(cx))>> \o c.log
                  \o (IF ~c.hidden THEN <<Step("insert", "self", None, c, c)>> ELSE <<>>))

\* Variant of layer that starts from an empty documentation mapping.
layer_DropsOperations(self) == ApiMethodRouter(<<>>, self.router)

\* pub fn layer(self, layer): MethodRouter::layer keeps the methods routed.
layer(self) == ApiMethodRouter(self.operations, self.router)

\* pub fn route_layer(self, layer)
route_layer(self) == ApiMethodRouter(self.operations, self.router)

\* pub fn with_state(self, state)
with_state(self) == ApiMethodRouter(self.operations, self.router)

\* Variant of merge in which a record of self wins over one of other.
merge_SelfWins(self, other) ==
  ApiMethodRouter(IndexMap_extend(other.operations, self.operations),
                  MethodRouter_merge(self.router, other.router))

\* Variant of merge in which the dispatchers are not merged.
merge_KeepsRouter(self, other) ==
  ApiMethodRouter(IndexMap_extend(self.operations, other.operations), self.router)

\* Variant of merge in which the documentation mappings are not combined.
merge_KeepsOperations(self, other) ==
  ApiMethodRouter(self.operations, MethodRouter_merge(self.router, other.router))

\* pub fn merge(mut self, other) -> Self
merge(self, other) ==
  ApiMethodRouter(IndexMap_extend(self.operations, other.operations),
                  MethodRouter_merge(self.router, other.router))

\* PathItem::default()
PathItem_default == [m \in Methods |-> None]

RECURSIVE PlaceAll_PostIntoPut(_, _)
\* Variant of the loop of take_path_item whose "post" arm fills the put slot.
PlaceAll_PostIntoPut(p, entries) ==
  IF entries = <<>> THEN p
  ELSE LET e == entries[1]
           slot == IF e.key = "post" THEN "put" ELSE e.key
       IN IF e.key \in Methods
          THEN PlaceAll_PostIntoPut([p EXCEPT !.path[slot] = Some(e.value)], Tail(entries))
          ELSE [p EXCEPT !.unreachable = TRUE]

\* Variant of the loop of take_path_item that places the first entry only.
PlaceAll_FirstOnly(p, entries) ==
  IF entries = <<>> THEN p
  ELSE LET e == entries[1]
       IN IF e.key \in Methods
          THEN [p EXCEPT !.path[e.key] = Some(e.value)]
          ELSE [p EXCEPT !.unreachable = TRUE]

RECURSIVE PlaceAll(_, _)
\* The loop of take_path_item over the taken entries: on p = [path, unreachable].
PlaceAll(p, entries) ==
  IF entries = <<>> THEN p
  ELSE LET e == entries[1]
       IN IF e.key \in Methods
          THEN PlaceAll([p EXCEPT !.path[e.key] = Some(e.value)], Tail(entries))
          ELSE [p EXCEPT !.unreachable = TRUE]

\* Variant of take_path_item that iterates the mapping without taking it.
take_path_item_Keeps(self) ==
  LET p == PlaceAll([path |-> PathItem_default, unreachable |-> FALSE], self.operations)
  IN [self |-> self, path |-> p.path, unreachable |-> p.unreachable]

\* pub(crate) fn take_path_item(&mut self) -> PathItem
take_path_item(self) ==
  LET p == PlaceAll([path |-> PathItem_default, unreachable |-> FALSE], self.operations)
  IN [self |-> ApiMethodRouter(<<>>, self.router), path |-> p.path, unreachable |-> p.unreachable]

----------------------------------------------------------------------------
(* State *)

\* A handler whose adapters declare no response.
NoHandler == [out |-> <<>>, early |-> <<>>]

\* drained[s]: the wrapper in slot s has been drained, and no registration or
\* merge has been applied to it since.  last.again: the call started from such
\* a wrapper.

\* What the last call was, what it started from and what it did.
Call(op, slot, m, h, t, pre, other, seen, hidden, log, unreachable) ==
  [op |-> op, slot |-> slot, method |-> m, handler |-> h, transform |-> t,
   pre |-> pre, other |-> other, seen |-> seen, hidden |-> hidden, log |-> log,
   errs |-> Len(ctx.errors), unreachable |-> unreachable, again |-> drained[slot]]

NoCall ==
  [op |-> "none", slot |-> "a", method |-> "get", handler |-> NoHandler, transform |-> "none",
   pre |-> NoRouter, other |-> NoRouter, seen |-> DefaultOperation, hidden |-> FALSE,
   log |-> <<>>, errs |-> 0, unreachable |-> FALSE, again |-> FALSE]

\* A call that runs no inference.
Plain(op, slot, pre, other) ==
  Call(op, slot, "get", NoHandler, "none", pre, other, DefaultOperation, FALSE, <<>>, FALSE)

Init ==
  /\ ctx \in [infer_responses : BOOLEAN, errors : {<<>>}]
  /\ routers = [s \in Slots |-> NoRouter]
  /\ path = PathItem_default
  /\ last = NoCall
  /\ steps = 0
  /\ drained = [s \in Slots |-> FALSE]

\* A new wrapper is bound to the first slot that holds none.
Free(s) == ~routers[s].live /\ \A o \in Slots : ~routers[o].live => (s = "a" \/ o # "a")

\* One more call of the run.
Tick == steps < MaxSteps /\ steps' = steps + 1

\* The outcome r of a registration call becomes the state.
Commit(op, s, m, h, t, r) ==
  /\ Tick
  /\ routers' = [routers EXCEPT ![s] = r.self]
  /\ ctx' = r.ctx
  /\ last' = Call(op, s, m, h, t, routers[s], NoRouter, r.seen, r.hidden, r.log, FALSE)
  /\ drained' = [drained EXCEPT ![s] = FALSE]
  /\ UNCHANGED path

\* let r = $name(handler);
TopM(s, m, h) ==
  /\ Free(s)
  /\ Commit("top", s, m, h, "none", top_name(ctx, m, h))

\* let r = $name_with(handler, transform);
TopMWith(s, m, h, t) ==
  /\ Free(s)
  /\ Commit("top_with", s, m, h, t, top_name_with(ctx, m, h, t))

\* r = r.$name(handler);
ChainM(s, m, h) ==
  /\ routers[s].live
  /\ Commit("chain", s, m, h, "none", chain_name(routers[s], ctx, m, h))

\* r = r.$name_with(handler, transform);
ChainMWith(s, m, h, t) ==
  /\ routers[s].live
  /\ Commit("chain_with", s, m, h, t, chain_name_with(routers[s], ctx, m, h, t))

\* A call that touches one wrapper and runs no inference.
Rebuild(op, s, self) ==
  /\ Tick
  /\ routers' = [routers EXCEPT ![s] = self]
  /\ last' = Plain(op, s, routers[s], NoRouter)
  /\ drained' = [drained EXCEPT ![s] = @ /\ op \in {"layer", "route_layer", "with_state"}]
  /\ UNCHANGED <<ctx, path>>

\* let r = ApiMethodRouter::new();
New(s) ==
  /\ Free(s)
  /\ Rebuild("new", s, ApiMethodRouter_new)

\* let r = ApiMethodRouter::from(method_router);
FromRouter(s, ms) ==
  /\ Free(s)
  /\ Rebuild("from", s, From_MethodRouter(ms))

\* r = r.layer(l);
Layer(s) ==
  /\ routers[s].live
  /\ Rebuild("layer", s, layer(routers[s]))

\* r = r.route_layer(l);
RouteLayer(s) ==
  /\ routers[s].live
  /\ Rebuild("route_layer", s, route_layer(routers[s]))

\* r = r.with_state(state);
WithState(s) ==
  /\ routers[s].live
  /\ Rebuild("with_state", s, with_state(routers[s]))

\* r = r.merge(o);  o is moved into the call
Merge(s, o) ==
  /\ Tick
  /\ s # o
  /\ routers[s].live
  /\ routers[o].live
  /\ routers' = [routers EXCEPT ![s] = merge(routers[s], routers[o]), ![o] = NoRouter]
  /\ last' = Plain("merge", s, routers[s], routers[o])
  /\ drained' = [drained EXCEPT ![s] = FALSE, ![o] = FALSE]
  /\ UNCHANGED <<ctx, path>>

\* let item = r.take_path_item();
Drain(s) ==
  /\ Tick
  /\ routers[s].live
  /\ LET r == take_path_item(routers[s])
     IN /\ routers' = [routers EXCEPT ![s] = r.self]
        /\ path' = r.path
        /\ last' = Call("take_path_item", s, "get", NoHandler, "none", routers[s], NoRouter,
                        DefaultOperation, FALSE, <<>>, r.unreachable)
        /\ drained' = [drained EXCEPT ![s] = TRUE]
  /\ UNCHANGED ctx

Next ==
  \/ \E s \in Slots, m \in RegMethods, h \in RouteHandlers : TopM(s, m, h)
  \/ \E s \in Slots, m \in RegMethods, h \in RouteHandlers, t \in Transforms : TopMWith(s, m, h, t)
  \/ \E s \in Slots, m \in RegMethods, h \in RouteHandlers : ChainM(s, m, h)
  \/ \E s \in Slots, m \in RegMethods, h \in RouteHandlers, t \in Transforms : ChainMWith(s, m, h, t)
  \/ \E s \in Slots : New(s)
  \/ \E s \in Slots, ms \in SUBSET RegMethods : FromRouter(s, ms)
  \/ \E s \in Slots : Layer(s)
  \/ \E s \in Slots : RouteLayer(s)
  \/ \E s \in Slots : WithState(s)
  \/ \E s \in Slots, o \in Slots : Merge(s, o)
  \/ \E s \in Slots : Drain(s)

Spec == Init /\ [][Next]_vars

\* One registration call on a fresh wrapper, with every handler the bounds allow.
InitInfer ==
  /\ ctx \in [infer_responses : BOOLEAN, errors : {<<>>}]
  /\ routers = [s \in Slots |-> IF s = "a" THEN ApiMethodRouter_new ELSE NoRouter]
  /\ path = PathItem_default
  /\ last = NoCall
  /\ steps = 0
  /\ drained = [s \in Slots |-> FALSE]

\* let b = $name(handler);
InferTopM == last.op = "none" /\ \E m \in RegMethods, h \in HandlerTypes : TopM("b", m, h)

\* let b = $name_with(handler, transform);
InferTopMWith ==
  last.op = "none" /\ \E m \in RegMethods, h \in HandlerTypes, t \in Transforms : TopMWith("b", m, h, t)

\* a = a.$name(handler);
InferChainM == last.op = "none" /\ \E m \in RegMethods, h \in HandlerTypes : ChainM("a", m, h)

\* a = a.$name_with(handler, transform);
InferChainMWith ==
  last.op = "none" /\ \E m \in RegMethods, h \in HandlerTypes, t \in Transforms : ChainMWith("a", m, h, t)

NextInfer == InferTopM \/ InferTopMWith \/ InferChainM \/ InferChainMWith

SpecInfer == InitInfer /\ [][NextInfer]_vars

----------------------------------------------------------------------------
(* Reading the state *)

\* The response registry of an operation (empty while operation.responses is None).
Registry(op) == IF op.responses = None THEN DefaultResponses ELSE op.responses[1]

\* The outcome key is taken in the operation's registry.
Occupied(op, key) ==
  IF key = None THEN Registry(op).default # None ELSE key[1] \in Keys(Registry(op).responses)

\* The response documented under an occupied outcome key.
Entry(op, key) ==
  IF key = None THEN Registry(op).default[1] ELSE Get(Registry(op).responses, key[1])

\* The error set_inferred_response records for an occupied key.
ConflictOf(key) ==
  IF key = None THEN InferredDefaultResponseConflict ELSE InferredResponseConflict(key[1])

\* The errors the last call appended to the generation context.
Appended == SubSeq(ctx.errors, last.errs + 1, Len(ctx.errors))

\* The calls to set_inferred_response of the last call, in order.
Sets == SelectSeq(last.log, LAMBDA e : e.ev = "set")

\* How many elements of seq equal x.
Times(seq, x) == Cardinality({i \in 1..Len(seq) : seq[i] = x})

\* The first position of x in seq.
First(seq, x) == CHOOSE i \in 1..Len(seq) : seq[i] = x /\ \A j \in 1..(i - 1) : seq[j] # x

\* The last call was a registration.
IsRegistration == last.op \in {"top", "top_with", "chain", "chain_with"}

\* The wrapper the last call produced.
Result == routers[last.slot]

----------------------------------------------------------------------------
(* Claims *)

\* C1 (as claimed): in a registration that applies input early responses, when
\* the output adapter yields one response at status K and the input adapter one
\* early response at the same K, the registry holds the early response at K and
\* no conflict for K is recorded.
C1_EarlyOverridesOutput ==
  (last.op \in {"top", "top_with", "chain_with"} /\ ctx.infer_responses) =>
    \A K \in StatusCodes :
      (Times(last.handler.out, Some(K)) = 1 /\ Times(last.handler.early, Some(K)) = 1) =>
        /\ Occupied(last.seen, Some(K))
        /\ Entry(last.seen, Some(K)).src = "early"
        /\ Times(Appended, InferredResponseConflict(K)) = 0

\* C2: when exactly two of the inferred responses a registration call applies
\* carry the status K and both come from the same adapter, the call appends
\* exactly one InferredResponseConflict(K) and the registry keeps at K the
\* response that was written first.
C2_SameSourceConflict ==
  IsRegistration =>
    \A K \in StatusCodes, src \in {"output", "early"} :
      LET atK == SelectSeq(Sets, LAMBDA e : e.key = Some(K))
          yielded == IF src = "output" THEN last.handler.out ELSE last.handler.early
      IN (Len(atK) = 2 /\ atK[1].src = src /\ atK[2].src = src) =>
           /\ Times(Appended, InferredResponseConflict(K)) = 1
           /\ Occupied(last.seen, Some(K))
           /\ Entry(last.seen, Some(K)) = Response(src, First(yielded, Some(K)))

\* C2 witness: a top-level registration whose input adapter yields the status
\* 404 twice, and nothing else does, has recorded the conflict.
C2_Witness ==
  /\ last.op = "top"
  /\ last.handler.early = <<Some(404), Some(404)>>
  /\ Times(last.handler.out, Some(404)) = 0
  /\ Appended = <<InferredResponseConflict(404)>>

\* C3 (as claimed): with infer_responses false, no registration applies an
\* inferred response: the record has no registry entry before the transform
\* runs and no conflict is recorded.
C3_NoInferenceWhenDisabled ==
  (IsRegistration /\ ~ctx.infer_responses) =>
    /\ Sets = <<>>
    /\ Registry(last.seen) = DefaultResponses
    /\ Appended = <<>>

C5_DocsSubsetOfRoutes ==
  \A s \in Slots : Keys(routers[s].operations) \subseteq routers[s].router

\* C5 witness: a merge has brought documented methods of both operands into one
\* wrapper.
C5_Witness ==
  /\ last.op = "merge"
  /\ Keys(last.pre.operations) # {}
  /\ Keys(last.other.operations) \ Keys(last.pre.operations) # {}
  /\ Keys(Result.operations) \subseteq Result.router

\* C6: a drain of a wrapper that has been drained before, with no registration
\* or merge in between, returns a fragment whose eight slots are all empty.
C6_SecondDrainEmpty ==
  (last.op = "take_path_item" /\ last.again) => \A m \in Methods : path[m] = None

\* C6 witness: a wrapper with a routed method has been drained a second time.
C6_Witness ==
  /\ last.op = "take_path_item"
  /\ last.again
  /\ last.pre.router # {}
  /\ path = PathItem_default

\* C7 (as claimed): registering GET without a transform, inference enabled, with
\* an output adapter declaring 200 and 404 and an input adapter declaring an
\* early 422, stores a record whose registry keys are exactly {200, 404, 422}
\* and records no conflict, for the chained and for the top-level registration.
C7_ScenarioKeys ==
  ( /\ last.op \in {"chain", "top"}
    /\ ctx.infer_responses
    /\ last.method = "get"
    /\ last.handler = [out |-> <<Some(200), Some(404)>>, early |-> <<Some(422)>>] ) =>
    /\ "get" \in Keys(Result.operations)
    /\ Keys(Registry(Get(Result.operations, "get")).responses) = {200, 404, 422}
    /\ Appended = <<>>

\* C8: merging two wrappers that document disjoint sets of methods gives a
\* mapping that is the union of both, every record unchanged, and a drain of it
\* fills the slot of every method either operand documented.
C8_MergeDisjoint ==
  (last.op = "merge" /\ Keys(last.pre.operations) \cap Keys(last.other.operations) = {}) =>
    /\ Keys(Result.operations) = Keys(last.pre.operations) \cup Keys(last.other.operations)
    /\ \A m \in Keys(last.pre.operations) :
         Get(Result.operations, m) = Get(last.pre.operations, m)
    /\ \A m \in Keys(last.other.operations) :
         Get(Result.operations, m) = Get(last.other.operations, m)
    /\ \A m \in Keys(last.pre.operations) \cup Keys(last.other.operations) :
         take_path_item(Result).path[m] = Some(Get(Result.operations, m))

\* C8 witness: a wrapper documenting GET has been merged with one documenting POST.
C8_Witness ==
  /\ last.op = "merge"
  /\ Keys(last.pre.operations) = {"get"}
  /\ Keys(last.other.operations) = {"post"}
  /\ Keys(Result.operations) = {"get", "post"}

\* C9: an M_with call runs, in this order, the input request shape, the output
\* inferred responses, the input early responses, the transform exactly once,
\* and then the storage; the transform sees every inferred response in the
\* record, and no inferred response is applied after it.
C9_WithOrder ==
  last.op \in {"chain_with", "top_with"} =>
    LET L == SelectSeq(last.log, LAMBDA e : e.ev # "route")
        At(ev) == {i \in 1..Len(L) : L[i].ev = ev}
    IN /\ At("input") = {1}
       /\ Cardinality(At("transform")) = 1
       /\ \A i \in At("set"), t \in At("transform") : 1 < i /\ i < t
       /\ \A i \in At("set"), j \in At("set") :
            i < j => ~(L[i].src = "early" /\ L[j].src = "output")
       /\ ctx.infer_responses =>
            /\ [i \in 1..Len(Sets) |-> Sets[i].key] = last.handler.out \o last.handler.early
            /\ \A i \in 1..Len(Sets) :
                 Sets[i].src = IF i <= Len(last.handler.out) THEN "output" ELSE "early"
       /\ \A i \in At("set"), t \in At("transform") : Occupied(L[t].op, L[i].key)
       /\ \A i \in At("insert"), t \in At("transform") :
            t < i /\ Get(Result.operations, last.method) = L[t].post
       /\ Cardinality(At("insert")) = IF last.hidden THEN 0 ELSE 1

\* C9 witness: a chained M_with with inference enabled has applied an output
\* and an early response, run a transform that edits the record, and stored it.
C9_Witness ==
  /\ last.op = "chain_with"
  /\ ctx.infer_responses
  /\ last.handler.out # <<>>
  /\ last.handler.early # <<>>
  /\ last.transform = "respond"
  /\ last.method \in Keys(Result.operations)

\* The number of entries of an operation's registry.
StoredCount(op) ==
  Cardinality(Keys(Registry(op).responses)) + (IF Registry(op).default # None THEN 1 ELSE 0)

C11_DrainPlacesEachRecord ==
  last.op = "take_path_item" =>
    /\ \A m \in Methods :
         IF m \in Keys(last.pre.operations)
         THEN path[m] = Some(Get(last.pre.operations, m))
         ELSE path[m] = None
    /\ Result.router = last.pre.router

\* C11 witness: a wrapper documenting GET and POST has been drained.
C11_Witness ==
  /\ last.op = "take_path_item"
  /\ Keys(last.pre.operations) = {"get", "post"}
  /\ path["get"] # None
  /\ path["post"] # None
  /\ path["put"] = None

\* C12: every key of every documentation mapping is one of the eight method
\* names, and no drain has reached the unreachable!() arm.
C12_KeysAreMethods ==
  /\ \A s \in Slots : Keys(routers[s].operations) \subseteq Methods
  /\ ~last.unreachable

\* C12 witness: a wrapper that documents two methods, built by registrations,
\* has been drained.
C12_Witness ==
  /\ last.op = "take_path_item"
  /\ Cardinality(Keys(last.pre.operations)) = 2
  /\ ~last.unreachable

\* C13: layer, route_layer and with_state leave the documentation mapping as
\* it was, keys and records, and record no error.
C13_LayeringKeepsDocs ==
  last.op \in {"layer", "route_layer", "with_state"} =>
    /\ Result.operations = last.pre.operations
    /\ Result.live
    /\ Len(ctx.errors) = last.errs

\* C13 witness: a layer has been put around a wrapper that documents a method.
C13_Witness ==
  /\ last.op = "layer"
  /\ last.pre.operations # <<>>
  /\ Result.operations = last.pre.operations

\* How many entries of an IndexMap carry the key.
Entries(map, k) == Cardinality({i \in 1..Len(map) : map[i].key = k})

\* C14: when merge(other) finds a method documented in both wrappers, the merged
\* mapping holds one record under it, the one of other; the records of methods
\* only self documents are unchanged; and the merge records no error.
C14_MergeLastWins ==
  last.op = "merge" =>
    /\ \A m \in Keys(last.pre.operations) \cap Keys(last.other.operations) :
         /\ Entries(Result.operations, m) = 1
         /\ Get(Result.operations, m) = Get(last.other.operations, m)
    /\ \A m \in Keys(last.pre.operations) \ Keys(last.other.operations) :
         /\ Entries(Result.operations, m) = 1
         /\ Get(Result.operations, m) = Get(last.pre.operations, m)
    /\ Len(ctx.errors) = last.errs

\* C14 witness: two wrappers documenting the same method with different
\* records have been merged.
C14_Witness ==
  /\ last.op = "merge"
  /\ \E m \in Keys(last.pre.operations) \cap Keys(last.other.operations) :
       /\ Get(last.pre.operations, m) # Get(last.other.operations, m)
       /\ Get(Result.operations, m) = Get(last.other.operations, m)

\* The record a registration call built: the one its storage step saw.
Built == LET i == CHOOSE i \in 1..Len(last.log) : last.log[i].ev = "insert" IN last.log[i].op

\* C15: a chained registration for M leaves the records under every other
\* method as they were and adds no other key; when the record is not hidden the
\* mapping then holds exactly one record under M, the one this call built.
C15_ChainTouchesOnlyM ==
  last.op \in {"chain", "chain_with"} =>
    /\ Keys(Result.operations) \ {last.method} = Keys(last.pre.operations) \ {last.method}
    /\ \A m \in Keys(last.pre.operations) \ {last.method} :
         /\ Entries(Result.operations, m) = 1
         /\ Get(Result.operations, m) = Get(last.pre.operations, m)
    /\ ~last.hidden =>
         /\ Entries(Result.operations, last.method) = 1
         /\ Get(Result.operations, last.method) = Built

\* C15 witness: a chained registration has replaced the record of M in a
\* wrapper that documents another method too.
C15_Witness ==
  /\ last.op = "chain"
  /\ last.method \in Keys(last.pre.operations)
  /\ Keys(last.pre.operations) \ {last.method} # {}
  /\ Get(last.pre.operations, last.method) # Get(Result.operations, last.method)

\* s is a prefix of t.
IsPrefix(s, t) == Len(s) <= Len(t) /\ SubSeq(t, 1, Len(s)) = s

\* C16: a registration call always completes: whether or not its inference
\* recorded conflicts, the dispatcher routes M afterwards and the record is
\* stored unless hidden; what it appends are conflicts only; and no call ever
\* removes an error from the generation context.
C16_ConflictsNeverFail ==
  /\ [](IsRegistration =>
          /\ Result.live
          /\ last.method \in Result.router
          /\ ~last.hidden => last.method \in Keys(Result.operations)
          /\ \A i \in 1..Len(Appended) :
               Appended[i].kind \in {"InferredResponseConflict", "InferredDefaultResponseConflict"})
  /\ [][IsPrefix(ctx.errors, ctx'.errors)]_vars

\* C16 witness: a chained M_with whose inference recorded a conflict has
\* registered the handler and stored the record.
C16_Witness ==
  /\ last.op = "chain_with"
  /\ Appended # <<>>
  /\ last.method \notin last.pre.router
  /\ last.method \in Result.router
  /\ last.method \in Keys(Result.operations)

\* The orders in which the entries of an IndexMap can have been inserted.
Orders(map) ==
  {[i \in 1..Len(map) |-> map[f[i]]] :
     f \in {g \in [1..Len(map) -> 1..Len(map)] : \A i, j \in 1..Len(map) : g[i] = g[j] => i = j}}

\* The mapping of an IndexMap, without the order of its entries.
AsMap(map) == [k \in Keys(map) |-> Get(map, k)]

\* C17: the fragment a drain returns does not depend on the order of the
\* registrations and merges: a wrapper holding the same records in any other
\* insertion order drains to the same fragment, and so do any two wrappers
\* that document the same methods with the same records.
C17_DrainOrderIndependent ==
  /\ \A s \in Slots : \A other \in Orders(routers[s].operations) :
       take_path_item(ApiMethodRouter(other, routers[s].router)).path
         = take_path_item(routers[s]).path
  /\ \A s \in Slots, o \in Slots :
       (routers[s].live /\ routers[o].live
          /\ AsMap(routers[s].operations) = AsMap(routers[o].operations)) =>
         take_path_item(routers[s]).path = take_path_item(routers[o]).path
  /\ last.op = "take_path_item" =>
       \A other \in Orders(last.pre.operations) :
         take_path_item(ApiMethodRouter(other, last.pre.router)).path = path

\* C17 witness: a wrapper in which POST was registered before GET has been
\* drained, and the fragment is the one the opposite order gives.
C17_Witness ==
  /\ last.op = "take_path_item"
  /\ Len(last.pre.operations) = 2
  /\ last.pre.operations[1].key = "post"
  /\ last.pre.operations[2].key = "get"
  /\ last.pre.operations[1].value # last.pre.operations[2].value
  /\ path = take_path_item(ApiMethodRouter(<<last.pre.operations[2], last.pre.operations[1]>>,
                                           last.pre.router)).path

\* The generation context as the last call found it.
CtxBefore == [ctx EXCEPT !.errors = SubSeq(ctx.errors, 1, last.errs)]

\* C18: the top-level M_with and the chained M_with applied to a new, empty
\* wrapper give, for the same handler, transform and generation context, the
\* same documentation mapping, the same routed methods and the same recorded
\* errors; and the top-level M without a transform stores exactly one record,
\* under M.
C18_TopLevelIsChainOnNew ==
  /\ last.op = "top_with" =>
       LET r == chain_name_with(ApiMethodRouter_new, CtxBefore, last.method,
                                last.handler, last.transform)
       IN /\ r.self.operations = Result.operations
          /\ r.self.router = Result.router
          /\ r.ctx = ctx
  /\ (last.op = "chain_with" /\ last.pre = ApiMethodRouter_new) =>
       LET r == top_name_with(CtxBefore, last.method, last.handler, last.transform)
       IN /\ r.self.operations = Result.operations
          /\ r.self.router = Result.router
          /\ r.ctx = ctx
  /\ last.op = "top" =>
       /\ Len(Result.operations) = 1
       /\ Keys(Result.operations) = {last.method}

\* C18 witness: a top-level M_with with inference enabled has recorded a
\* conflict and stored a record its transform edited.
C18_Witness ==
  /\ last.op = "top_with"
  /\ ctx.infer_responses
  /\ Appended # <<>>
  /\ last.transform = "respond"
  /\ Keys(Result.operations) = {last.method}

====
